---- MODULE Spec2Model ----
(***************************************************************************)
(* WorkerBrokerage (FBuildCore/WorkerPool/WorkerBrokerage.cpp): worker     *)
(* discovery and availability announcement over a coordinator connection   *)
(* or a shared rendezvous directory.                                       *)
(*                                                                         *)
(* Strings are sequences of one-character strings, so that formatting,     *)
(* basename extraction and case-insensitive comparison are computed.       *)
(***************************************************************************)
EXTENDS Integers, Sequences, FiniteSets, TLC

\* ------------------------------------------------------------------ bounds
MaxTicks == 4          \* the monotonic clock runs over 0..MaxTicks ticks
TickMS == 5000         \* milliseconds per clock tick
MaxList == 3           \* longest address list the coordinator delivers (SpecStatic)
MaxReply == 1          \* longest address list the coordinator delivers (Spec)

\* --------------------------------------------------------------- constants
ThrottleMS == 10000    \* elapsedTime >= 10000.0f
PROTOCOL_VERSION == 42 \* Protocol::PROTOCOL_VERSION

\* ----------------------------------------------------------------- strings
EmptyStr == <<>>
LOOPBACK == <<"1","2","7",".","0",".","0",".","1">>
NATIVE_SLASH == "/"

UpperChars == <<"A","B","C","D","E","F","G","H","I","J","K","L","M",
                "N","O","P","Q","R","S","T","U","V","W","X","Y","Z">>
LowerChars == <<"a","b","c","d","e","f","g","h","i","j","k","l","m",
                "n","o","p","q","r","s","t","u","v","w","x","y","z">>
DigitChars == <<"0","1","2","3","4","5","6","7","8","9">>

ToLower(c) ==
    IF \E i \in 1..26 : UpperChars[i] = c
    THEN LowerChars[CHOOSE i \in 1..26 : UpperChars[i] = c]
    ELSE c

LowerStr(s) == [i \in 1..Len(s) |-> ToLower(s[i])]

\* AString::CompareI: 0 when the strings are equal ignoring case.
CompareI(a, b) == IF LowerStr(a) = LowerStr(b) THEN 0 ELSE 1

\* "%u": decimal digits of a natural number.
RECURSIVE FormatU(_)
FormatU(n) ==
    IF n < 10 THEN <<DigitChars[n + 1]>>
    ELSE FormatU(n \div 10) \o <<DigitChars[(n % 10) + 1]>>

\* TCPConnectionPool::GetAddressAsString: packed 32-bit address to dotted quad.
GetAddressAsString(addr) ==
    FormatU((addr \div 16777216) % 256) \o <<".">> \o
    FormatU((addr \div 65536) % 256) \o <<".">> \o
    FormatU((addr \div 256) % 256) \o <<".">> \o
    FormatU(addr % 256)

\* m_BrokerageRoot.Format( "%s/main/%u.linux/", root, protocolVersion )
FormatRoot(root, version) ==
    root \o <<"/","m","a","i","n","/">> \o FormatU(version)
         \o <<".","l","i","n","u","x","/">>

\* AString::FindLast: index of the last occurrence of c in s, 0 if none.
FindLast(s, c) ==
    IF \E i \in 1..Len(s) : s[i] = c
    THEN CHOOSE i \in 1..Len(s) : s[i] = c /\ \A j \in (i+1)..Len(s) : s[j] # c
    ELSE 0

\* AStackString<> workerName( lastSlash + 1 )
BaseName(path) == SubSeq(path, FindLast(path, NATIVE_SLASH) + 1, Len(path))

IsPrefix(p, s) == Len(p) <= Len(s) /\ SubSeq(s, 1, Len(p)) = p

\* ------------------------------------------------------- input universes
HOST_b7 == <<"b","7">>
HOST_ip == <<"1","0",".","0",".","0",".","5">>
HostNames == {HOST_b7, HOST_ip}

COORD_ADDR == <<"1","0",".","0",".","0",".","1">>
EXPLICIT_ADDR == <<"1","0",".","0",".","0",".","2">>
ENV_PATH == <<"/","f","b">>

\* other workers' sentinel names found in the rendezvous directory
PeerNames == { <<"B","7">>, LOOPBACK }

\* a packed 32-bit IPv4 address
IPv4(a, b, c, d) == ((a * 256 + b) * 256 + c) * 256 + d
ADDR_A == IPv4(10, 0, 0, 7)      \* 0x0A000007
ADDR_B == IPv4(10, 0, 0, 3)      \* 0x0A000003
ADDR_SELF == IPv4(10, 0, 0, 5)   \* 0x0A000005, the address of HOST_ip
ADDR_LOOP == IPv4(127, 0, 0, 1)  \* 0x7F000001
Addrs == {ADDR_A, ADDR_B, ADDR_SELF, ADDR_LOOP}

RECURSIVE SeqsUpTo(_, _)
SeqsUpTo(S, n) ==
    IF n = 0 THEN {<<>>}
    ELSE LET shorter == SeqsUpTo(S, n - 1)
         IN shorter \cup {Append(s, x) : s \in {t \in shorter : Len(t) = n - 1}, x \in S}

AddrLists == SeqsUpTo(Addrs, MaxList)
ShortLists == SeqsUpTo(Addrs, MaxReply)

\* what the caller's output array holds when it is passed in
PriorLists == { <<>>, << <<"o","l","d">> >> }

\* an environment variable: unset, set to the empty string, or set to a value
EnvUnset == [set |-> FALSE, value |-> EmptyStr]
EnvSet(value) == [set |-> TRUE, value |-> value]
EnvVar(value) == { EnvUnset, EnvSet(EmptyStr), EnvSet(value) }

\* all orderings of a finite set, as sequences
Orderings(S) ==
    LET n == Cardinality(S)
    IN {s \in [1..n -> S] : \A i, j \in 1..n : i # j => s[i] # s[j]}

\* ------------------------------------------------------------------- state
VARIABLES
    env,        \* process environment: FASTBUILD_COORDINATOR, FASTBUILD_BROKERAGE_PATH, host name
    wb,         \* the WorkerBrokerage object's members
    pc,         \* control thread: "idle", "waiting" (spin in FindWorkers), "destroyed"
    now,        \* monotonic clock, in ticks
    files,      \* paths of the files that exist
    wire,       \* wire layer: is a RequestWorkerList awaiting its reply
    callback,   \* wire thread inside UpdateWorkerList: which store is done, the list it carries
    lastOp,     \* the most recent call on the control thread: arguments, effects, the caller's workerList
    hist        \* times of the last two sentinel creations / status sends

vars == <<env, wb, pc, now, files, wire, callback, lastOp, hist>>

NoOp == [op |-> "none", arg |-> FALSE, done |-> TRUE, prevAvail |-> FALSE,
         prevTimer |-> 0, prior |-> <<>>, workerList |-> <<>>, delivered |-> <<>>,
         connects |-> <<>>, msgs |-> <<>>, fsOps |-> <<>>]

\* the wire thread is not inside UpdateWorkerList
NoCallback == [at |-> "none", list |-> <<>>]

\* WorkerBrokerage::WorkerBrokerage
Constructed(explicitCoordinator) ==
    [ m_BrokerageRoot |-> EmptyStr,
      m_Availability |-> FALSE,
      m_Initialized |-> FALSE,
      m_HostName |-> EmptyStr,
      m_BrokerageFilePath |-> EmptyStr,
      m_CoordinatorAddress |-> explicitCoordinator,
      m_ConnectionPool |-> FALSE,
      m_Connection |-> FALSE,
      m_TimerLastUpdate |-> 0,
      m_WorkerListUpdate |-> <<>>,
      m_WorkerListUpdateReady |-> FALSE,
      livePools |-> 0 ]   \* WorkerConnectionPool objects allocated (FNEW) and not yet deleted

\* the state after construction, for given values of the two environment
\* variables and of the coordinator address handed to the object
InitWith(coordinators, brokeragePaths, explicitAddresses) ==
    /\ env \in [ coordinator : coordinators,
                 brokeragePath : brokeragePaths,
                 hostName : HostNames,
                 explicit : explicitAddresses ]
    /\ wb = Constructed(env.explicit)
    /\ pc = "idle"
    /\ now = 0
    /\ files = {}
    /\ wire = FALSE
    /\ callback = NoCallback
    /\ lastOp = NoOp
    /\ hist = [lastCreate |-> -1, prevCreate |-> -1, lastSend |-> -1, prevSend |-> -1,
               disturbed |-> FALSE]

Init == InitWith({EnvUnset, EnvSet(COORD_ADDR)}, {EnvUnset, EnvSet(ENV_PATH)}, {EmptyStr})

InitStatic == InitWith(EnvVar(COORD_ADDR), EnvVar(ENV_PATH), {EmptyStr, EXPLICIT_ADDR})

\* ------------------------------------------------------------ file system
FsOp(op, path, ok) == [op |-> op, path |-> path, ok |-> ok]

\* FileIO::FileExists
FileExists(f, path) == path \in f

\* FileIO::FileDelete: removes the file unless the operation fails
FileDelete(f, path, fsOk) == IF fsOk THEN f \ {path} ELSE f

\* FileStream::Open( path, WRITE_ONLY ): creates the file; an empty name cannot be opened
OpenSucceeds(path, fsOk) == fsOk /\ path # EmptyStr
FileStreamOpen(f, path, fsOk) == IF OpenSucceeds(path, fsOk) THEN f \cup {path} ELSE f

\* FileIO::GetFiles( root, "*", non-recursive ): the files directly under root
GetFiles(f, root) ==
    {p \in f : IsPrefix(root, p) /\ Len(p) > Len(root)
               /\ FindLast(p, NATIVE_SLASH) = Len(root)}

\* Timer::GetElapsedMS
GetElapsedMS(start) == (now - start) * TickMS

\* ------------------------------------------------------- WorkerBrokerage
\* Init that formats the brokerage root whether or not a coordinator is set
WorkerBrokerage_Init_RootAlways(w) ==
    IF w.m_Initialized THEN w
    ELSE
      LET w1 == [w EXCEPT !.m_HostName = env.hostName]
          w2 == IF w1.m_CoordinatorAddress = EmptyStr /\ env.coordinator.set
                THEN [w1 EXCEPT !.m_CoordinatorAddress = env.coordinator.value]
                ELSE w1
          root == IF env.brokeragePath.set
                  THEN FormatRoot(env.brokeragePath.value, PROTOCOL_VERSION)
                  ELSE w2.m_BrokerageRoot
          w3 == [w2 EXCEPT !.m_BrokerageRoot = root,
                           !.m_BrokerageFilePath = root \o w2.m_HostName]
      IN [w3 EXCEPT !.m_TimerLastUpdate = now, !.m_Initialized = TRUE]

\* Init that reads FASTBUILD_COORDINATOR over an address already present
WorkerBrokerage_Init_EnvFirst(w) ==
    IF w.m_Initialized THEN w
    ELSE
      LET w1 == [w EXCEPT !.m_HostName = env.hostName]
          w2 == IF env.coordinator.set
                THEN [w1 EXCEPT !.m_CoordinatorAddress = env.coordinator.value]
                ELSE w1
          w3 == IF w2.m_CoordinatorAddress = EmptyStr
                THEN LET root == IF env.brokeragePath.set
                                 THEN FormatRoot(env.brokeragePath.value, PROTOCOL_VERSION)
                                 ELSE w2.m_BrokerageRoot
                     IN [w2 EXCEPT !.m_BrokerageRoot = root,
                                   !.m_BrokerageFilePath = root \o w2.m_HostName]
                ELSE w2
      IN [w3 EXCEPT !.m_TimerLastUpdate = now, !.m_Initialized = TRUE]

\* WorkerBrokerage::Init
WorkerBrokerage_Init(w) ==
    IF w.m_Initialized THEN w
    ELSE
      LET w1 == [w EXCEPT !.m_HostName = env.hostName]
          w2 == IF w1.m_CoordinatorAddress = EmptyStr /\ env.coordinator.set
                THEN [w1 EXCEPT !.m_CoordinatorAddress = env.coordinator.value]
                ELSE w1
          w3 == IF w2.m_CoordinatorAddress = EmptyStr
                THEN LET root == IF env.brokeragePath.set
                                 THEN FormatRoot(env.brokeragePath.value, PROTOCOL_VERSION)
                                 ELSE w2.m_BrokerageRoot
                     IN [w2 EXCEPT !.m_BrokerageRoot = root,
                                   !.m_BrokerageFilePath = root \o w2.m_HostName]
                ELSE w2
      IN [w3 EXCEPT !.m_TimerLastUpdate = now, !.m_Initialized = TRUE]

\* the configuration test with the coordinator half inverted
NotConfigured_Inverted(w) == w.m_BrokerageRoot = EmptyStr /\ w.m_CoordinatorAddress # EmptyStr

\* if ( m_BrokerageRoot.IsEmpty() && m_CoordinatorAddress.IsEmpty() )
NotConfigured(w) == w.m_BrokerageRoot = EmptyStr /\ w.m_CoordinatorAddress = EmptyStr

\* WorkerBrokerage::ConnectToCoordinator; connOk: does the TCP connect succeed
ConnectToCoordinator(w, connOk) ==
    IF w.m_CoordinatorAddress # EmptyStr
    THEN [ ok |-> connOk,
           wb |-> [w EXCEPT !.m_ConnectionPool = connOk, !.m_Connection = connOk,
                            !.livePools = IF connOk THEN @ + 1 ELSE @],
           connects |-> << [address |-> w.m_CoordinatorAddress, ok |-> connOk] >> ]
    ELSE [ ok |-> FALSE, wb |-> w, connects |-> <<>> ]

\* the teardown that closes the connection and keeps the pool
DisconnectFromCoordinator_KeepPool(w) ==
    IF w.m_ConnectionPool
    THEN [w EXCEPT !.m_Connection = FALSE]
    ELSE w

\* WorkerBrokerage::DisconnectFromCoordinator
DisconnectFromCoordinator(w) ==
    IF w.m_ConnectionPool
    THEN [w EXCEPT !.m_ConnectionPool = FALSE, !.m_Connection = FALSE,
                   !.livePools = @ - 1]
    ELSE w

MsgSetWorkerStatus(available) == [type |-> "SetWorkerStatus", status |-> available]
MsgRequestWorkerList == [type |-> "RequestWorkerList", status |-> FALSE]

Effect(w, f, connects, msgs, fsOps) ==
    [wb |-> w, files |-> f, connects |-> connects, msgs |-> msgs, fsOps |-> fsOps]

\* the announce branch without the timer restart after creating the sentinel
Announce_NoRestart(w, f, connOk, fsOk) ==
    IF GetElapsedMS(w.m_TimerLastUpdate) >= ThrottleMS
    THEN LET c == ConnectToCoordinator(w, connOk)
             path == c.wb.m_BrokerageFilePath
         IN IF c.ok
            THEN Effect(DisconnectFromCoordinator(c.wb), f, c.connects,
                        <<MsgSetWorkerStatus(TRUE)>>, <<>>)
            ELSE IF ~FileExists(f, path)
                 THEN Effect(c.wb,
                             FileStreamOpen(f, path, fsOk), c.connects, <<>>,
                             << FsOp("FileExists", path, TRUE),
                                FsOp("EnsurePathExists", c.wb.m_BrokerageRoot, fsOk),
                                FsOp("Open", path, OpenSucceeds(path, fsOk)) >>)
                 ELSE Effect(c.wb, f, c.connects, <<>>, << FsOp("FileExists", path, TRUE) >>)
    ELSE Effect(w, f, <<>>, <<>>, <<>>)

\* the announce branch restarting the timer also when the sentinel exists
Announce_RestartAlways(w, f, connOk, fsOk) ==
    IF GetElapsedMS(w.m_TimerLastUpdate) >= ThrottleMS
    THEN LET c == ConnectToCoordinator(w, connOk)
             path == c.wb.m_BrokerageFilePath
         IN IF c.ok
            THEN Effect(DisconnectFromCoordinator(c.wb), f, c.connects,
                        <<MsgSetWorkerStatus(TRUE)>>, <<>>)
            ELSE IF ~FileExists(f, path)
                 THEN Effect([c.wb EXCEPT !.m_TimerLastUpdate = now],
                             FileStreamOpen(f, path, fsOk), c.connects, <<>>,
                             << FsOp("FileExists", path, TRUE),
                                FsOp("EnsurePathExists", c.wb.m_BrokerageRoot, fsOk),
                                FsOp("Open", path, OpenSucceeds(path, fsOk)) >>)
                 ELSE Effect([c.wb EXCEPT !.m_TimerLastUpdate = now], f, c.connects, <<>>,
                             << FsOp("FileExists", path, TRUE) >>)
    ELSE Effect(w, f, <<>>, <<>>, <<>>)

\* SetAvailability, branch "if ( available )"
Announce(w, f, connOk, fsOk) ==
    IF GetElapsedMS(w.m_TimerLastUpdate) >= ThrottleMS
    THEN LET c == ConnectToCoordinator(w, connOk)
             path == c.wb.m_BrokerageFilePath
         IN IF c.ok
            THEN Effect(DisconnectFromCoordinator(c.wb), f, c.connects,
                        <<MsgSetWorkerStatus(TRUE)>>, <<>>)
            ELSE IF ~FileExists(f, path)
                 THEN Effect([c.wb EXCEPT !.m_TimerLastUpdate = now],
                             FileStreamOpen(f, path, fsOk), c.connects, <<>>,
                             << FsOp("FileExists", path, TRUE),
                                FsOp("EnsurePathExists", c.wb.m_BrokerageRoot, fsOk),
                                FsOp("Open", path, OpenSucceeds(path, fsOk)) >>)
                 ELSE Effect(c.wb, f, c.connects, <<>>, << FsOp("FileExists", path, TRUE) >>)
    ELSE Effect(w, f, <<>>, <<>>, <<>>)

\* SetAvailability, branch "else if ( m_Availability != available )"
Revoke(w, f, connOk, fsOk) ==
    LET c == ConnectToCoordinator(w, connOk)
        path == c.wb.m_BrokerageFilePath
        r == IF c.ok
             THEN Effect(DisconnectFromCoordinator(c.wb), f, c.connects,
                         <<MsgSetWorkerStatus(FALSE)>>, <<>>)
             ELSE Effect(c.wb, FileDelete(f, path, fsOk), c.connects, <<>>,
                         << FsOp("FileDelete", path, fsOk) >>)
    IN [r EXCEPT !.wb.m_TimerLastUpdate = now]

\* SetAvailability revoking on every call with available = false
SetAvailabilityCall_RevokeAlways(w0, f, available, connOk, fsOk) ==
    LET w == WorkerBrokerage_Init(w0)
    IN IF NotConfigured(w)
       THEN Effect(w, f, <<>>, <<>>, <<>>)
       ELSE LET r == IF available THEN Announce(w, f, connOk, fsOk)
                     ELSE Revoke(w, f, connOk, fsOk)
            IN [r EXCEPT !.wb.m_Availability = available]

\* SetAvailability with the final assignment made in the revoke branch only
SetAvailabilityCall_AssignOnRevoke(w0, f, available, connOk, fsOk) ==
    LET w == WorkerBrokerage_Init(w0)
    IN IF NotConfigured(w)
       THEN Effect(w, f, <<>>, <<>>, <<>>)
       ELSE IF available THEN Announce(w, f, connOk, fsOk)
            ELSE IF w.m_Availability # available
                 THEN [Revoke(w, f, connOk, fsOk) EXCEPT !.wb.m_Availability = available]
                 ELSE Effect(w, f, <<>>, <<>>, <<>>)

\* WorkerBrokerage::SetAvailability, the whole call
SetAvailabilityCall(w0, f, available, connOk, fsOk) ==
    LET w == WorkerBrokerage_Init(w0)
    IN IF NotConfigured(w)
       THEN Effect(w, f, <<>>, <<>>, <<>>)
       ELSE LET r == IF available THEN Announce(w, f, connOk, fsOk)
                     ELSE IF w.m_Availability # available THEN Revoke(w, f, connOk, fsOk)
                     ELSE Effect(w, f, <<>>, <<>>, <<>>)
            IN [r EXCEPT !.wb.m_Availability = available]

Created(fsOps) == \E i \in 1..Len(fsOps) : fsOps[i].op = "Open" /\ fsOps[i].ok

\* a sentinel creation or deletion among fsOps did not succeed
FileOpFailed(fsOps) ==
    \E i \in 1..Len(fsOps) : fsOps[i].op \in {"Open", "FileDelete"} /\ ~fsOps[i].ok

SetAvailability(available) ==
    /\ pc = "idle"
    /\ \E connOk, fsOk \in BOOLEAN :
         LET r == SetAvailabilityCall(wb, files, available, connOk, fsOk)
             resend == available /\ wb.m_Availability /\ r.msgs # <<>>
         IN /\ wb' = r.wb
            /\ files' = r.files
            /\ lastOp' = [NoOp EXCEPT !.op = "SetAvailability", !.arg = available,
                                      !.prevAvail = wb.m_Availability,
                                      !.prevTimer = WorkerBrokerage_Init(wb).m_TimerLastUpdate,
                                      !.connects = r.connects, !.msgs = r.msgs,
                                      !.fsOps = r.fsOps]
            /\ hist' = [ lastCreate |-> IF Created(r.fsOps) THEN now ELSE hist.lastCreate,
                         prevCreate |-> IF Created(r.fsOps) THEN hist.lastCreate ELSE hist.prevCreate,
                         lastSend |-> IF resend THEN now ELSE hist.lastSend,
                         prevSend |-> IF resend THEN hist.lastSend ELSE hist.prevSend,
                         disturbed |-> hist.disturbed
                                       \/ (r.wb.m_BrokerageRoot # EmptyStr /\ FileOpFailed(r.fsOps)) ]
    /\ UNCHANGED <<env, pc, now, wire, callback>>

\* the destructor with its availability test inverted
Destructor_Inverted ==
    /\ pc = "idle"
    /\ \E fsOk \in BOOLEAN :
         /\ files' = IF ~wb.m_Availability
                     THEN FileDelete(files, wb.m_BrokerageFilePath, fsOk)
                     ELSE files
         /\ lastOp' = [NoOp EXCEPT !.op = "Destructor",
                                   !.prevAvail = wb.m_Availability,
                                   !.fsOps = IF ~wb.m_Availability
                                             THEN << FsOp("FileDelete", wb.m_BrokerageFilePath, fsOk) >>
                                             ELSE <<>>]
    /\ pc' = "destroyed"
    /\ UNCHANGED <<env, wb, now, wire, callback, hist>>

\* WorkerBrokerage::~WorkerBrokerage
Destructor ==
    /\ pc = "idle"
    /\ \E fsOk \in BOOLEAN :
         /\ files' = IF wb.m_Availability
                     THEN FileDelete(files, wb.m_BrokerageFilePath, fsOk)
                     ELSE files
         /\ lastOp' = [NoOp EXCEPT !.op = "Destructor",
                                   !.prevAvail = wb.m_Availability,
                                   !.fsOps = IF wb.m_Availability
                                             THEN << FsOp("FileDelete", wb.m_BrokerageFilePath, fsOk) >>
                                             ELSE <<>>]
    /\ pc' = "destroyed"
    /\ UNCHANGED <<env, wb, now, wire, callback, hist>>

\* the conversion loop without the 127.0.0.1 test
RECURSIVE ConvertWorkerAddresses_NoLoopback(_, _, _)
ConvertWorkerAddresses_NoLoopback(list, update, hostName) ==
    IF update = <<>> THEN list
    ELSE LET workerName == GetAddressAsString(Head(update))
         IN ConvertWorkerAddresses_NoLoopback(
                IF CompareI(workerName, hostName) # 0
                THEN Append(list, workerName)
                ELSE list,
                Tail(update), hostName)

\* FindWorkers, lines 190-204: convert each delivered address and append the
\* names that are neither the host name nor 127.0.0.1
RECURSIVE ConvertWorkerAddresses(_, _, _)
ConvertWorkerAddresses(list, update, hostName) ==
    IF update = <<>> THEN list
    ELSE LET workerName == GetAddressAsString(Head(update))
         IN ConvertWorkerAddresses(
                IF CompareI(workerName, hostName) # 0 /\ CompareI(workerName, LOOPBACK) # 0
                THEN Append(list, workerName)
                ELSE list,
                Tail(update), hostName)

\* the conversion loop filling the caller's array from empty
RECURSIVE ConvertWorkerFiles_Fresh(_, _, _)
ConvertWorkerFiles_Fresh(list, results, hostName) ==
    IF results = <<>> THEN <<>>
    ELSE LET workerName == BaseName(Head(results))
         IN (IF CompareI(workerName, hostName) # 0 THEN <<workerName>> ELSE <<>>)
            \o ConvertWorkerFiles_Fresh(list, Tail(results), hostName)

\* FindWorkers, lines 226-237: take each file's base name and append the
\* names that are not the host name
RECURSIVE ConvertWorkerFiles(_, _, _)
ConvertWorkerFiles(list, results, hostName) ==
    IF results = <<>> THEN list
    ELSE LET workerName == BaseName(Head(results))
         IN ConvertWorkerFiles(
                IF CompareI(workerName, hostName) # 0
                THEN Append(list, workerName)
                ELSE list,
                Tail(results), hostName)

\* the caller passes again the array it passed empty to the previous
\* FindWorkers call
ReusedList ==
    IF lastOp.op = "FindWorkers" /\ lastOp.done /\ lastOp.prior = <<>>
    THEN {lastOp.workerList}
    ELSE {}

\* WorkerBrokerage::FindWorkers up to the spin wait (or to its return when no
\* request is sent); prior: the contents of the caller's array
FindWorkers_Begin(priors) ==
    /\ pc = "idle"
    /\ \E prior \in priors, connOk \in BOOLEAN :
         LET w == WorkerBrokerage_Init(wb)
             c == ConnectToCoordinator(w, connOk)
             op == [NoOp EXCEPT !.op = "FindWorkers", !.prior = prior,
                                !.workerList = prior,
                                !.prevAvail = wb.m_Availability,
                                !.prevTimer = w.m_TimerLastUpdate]
         IN IF NotConfigured(w)
            THEN /\ wb' = w
                 /\ lastOp' = op
                 /\ UNCHANGED <<pc, wire>>
            ELSE IF c.ok
            THEN /\ wb' = [c.wb EXCEPT !.m_WorkerListUpdateReady = FALSE]
                 /\ wire' = TRUE
                 /\ pc' = "waiting"
                 /\ lastOp' = [op EXCEPT !.done = FALSE, !.connects = c.connects,
                                         !.msgs = <<MsgRequestWorkerList>>]
            ELSE IF c.wb.m_BrokerageRoot # EmptyStr
            THEN \E results \in Orderings(GetFiles(files, c.wb.m_BrokerageRoot)) :
                 /\ wb' = c.wb
                 /\ lastOp' = [op EXCEPT !.connects = c.connects,
                                         !.workerList =
                                             IF results = <<>> THEN prior
                                             ELSE ConvertWorkerFiles(prior, results,
                                                                     c.wb.m_HostName),
                                         !.delivered = results,
                                         !.fsOps = << FsOp("GetFiles", c.wb.m_BrokerageRoot,
                                                           results # <<>>) >>]
                 /\ UNCHANGED <<pc, wire>>
            ELSE /\ wb' = c.wb
                 /\ lastOp' = [op EXCEPT !.connects = c.connects]
                 /\ UNCHANGED <<pc, wire>>
    /\ UNCHANGED <<env, now, files, callback, hist>>

\* FDELETE m_ConnectionPool (DisconnectFromCoordinator) ends the pool's
\* threads: it returns once the wire thread is out of its callback
WireThreadJoined == callback.at = "none"

\* a wait that ends at once
SpinWaitOver_Always == TRUE

\* while ( m_WorkerListUpdateReady == false ) Thread::Sleep( 1 ) is left
SpinWaitOver == wb.m_WorkerListUpdateReady

\* the end of FindWorkers without m_WorkerListUpdate.Clear()
FindWorkers_End_NoClear ==
    /\ pc = "waiting"
    /\ SpinWaitOver
    /\ WireThreadJoined
    /\ LET w == DisconnectFromCoordinator(wb)
       IN IF Len(w.m_WorkerListUpdate) = 0
          THEN /\ wb' = w
               /\ lastOp' = [lastOp EXCEPT !.done = TRUE]
          ELSE /\ lastOp' = [lastOp EXCEPT !.done = TRUE,
                                 !.workerList = ConvertWorkerAddresses(
                                     lastOp.workerList, w.m_WorkerListUpdate, w.m_HostName)]
               /\ wb' = w
    /\ pc' = "idle"
    /\ UNCHANGED <<env, now, files, wire, callback, hist>>

\* WorkerBrokerage::FindWorkers from the end of the spin wait to its return
FindWorkers_End ==
    /\ pc = "waiting"
    /\ SpinWaitOver
    /\ WireThreadJoined
    /\ LET w == DisconnectFromCoordinator(wb)
       IN IF Len(w.m_WorkerListUpdate) = 0
          THEN /\ wb' = w
               /\ lastOp' = [lastOp EXCEPT !.done = TRUE]
          ELSE /\ lastOp' = [lastOp EXCEPT !.done = TRUE,
                                 !.workerList = ConvertWorkerAddresses(
                                     lastOp.workerList, w.m_WorkerListUpdate, w.m_HostName)]
               /\ wb' = [w EXCEPT !.m_WorkerListUpdate = <<>>]
    /\ pc' = "idle"
    /\ UNCHANGED <<env, now, files, wire, callback, hist>>

\* WorkerBrokerage::UpdateWorkerList, called on the wire thread when the reply
\* to RequestWorkerList arrives. Its two stores (the Swap of line 245 and the
\* plain bool of line 246) are not ordered by any atomic or lock, so the first
\* one the control thread can observe is either of them.
UpdateWorkerList(lists) ==
    /\ wire
    /\ callback.at = "none"
    /\ \E workerListUpdate \in lists, first \in {"swapped", "flagged"} :
         /\ wb' = IF first = "swapped"
                  THEN [wb EXCEPT !.m_WorkerListUpdate = workerListUpdate]
                  ELSE [wb EXCEPT !.m_WorkerListUpdateReady = TRUE]
         /\ callback' = [at |-> first, list |-> workerListUpdate]
         /\ lastOp' = [lastOp EXCEPT !.delivered = workerListUpdate]
    /\ wire' = FALSE
    /\ UNCHANGED <<env, pc, now, files, hist>>

\* the other store of UpdateWorkerList becomes visible and the callback returns
UpdateWorkerList_Return ==
    /\ callback.at # "none"
    /\ wb' = IF callback.at = "swapped"
             THEN [wb EXCEPT !.m_WorkerListUpdateReady = TRUE]
             ELSE [wb EXCEPT !.m_WorkerListUpdate = callback.list]
    /\ callback' = NoCallback
    /\ UNCHANGED <<env, pc, now, files, wire, lastOp, hist>>

\* ------------------------------------------------------------ environment
\* the monotonic clock advances
Tick ==
    /\ now < MaxTicks
    /\ now' = now + 1
    /\ UNCHANGED <<env, wb, pc, files, wire, callback, lastOp, hist>>

\* another worker announces itself in the rendezvous directory
PeerAnnounce ==
    /\ env.brokeragePath.set
    /\ \E name \in PeerNames :
         LET path == FormatRoot(env.brokeragePath.value, PROTOCOL_VERSION) \o name
         IN /\ path \notin files
            /\ files' = files \cup {path}
    /\ UNCHANGED <<env, wb, pc, now, wire, callback, lastOp, hist>>

\* a file is removed from outside (a peer revokes, or the directory is cleaned up)
ExternalDelete ==
    /\ \E path \in files :
         /\ files' = files \ {path}
         /\ hist' = [hist EXCEPT !.disturbed = @ \/ path = wb.m_BrokerageFilePath]
    /\ UNCHANGED <<env, wb, pc, now, wire, callback, lastOp>>

Next ==
    \/ SetAvailability(TRUE)
    \/ SetAvailability(FALSE)
    \/ FindWorkers_Begin(PriorLists)
    \/ FindWorkers_End
    \/ UpdateWorkerList(ShortLists)
    \/ UpdateWorkerList_Return
    \/ Destructor
    \/ Tick
    \/ PeerAnnounce
    \/ ExternalDelete

Spec == Init /\ [][Next]_vars

\* the same operations with the clock standing at 0, over every configuration
\* and over the longer address lists
NextStatic ==
    \/ SetAvailability(TRUE)
    \/ SetAvailability(FALSE)
    \/ FindWorkers_Begin(PriorLists)
    \/ FindWorkers_End
    \/ UpdateWorkerList(AddrLists)
    \/ UpdateWorkerList_Return
    \/ Destructor
    \/ PeerAnnounce
    \/ ExternalDelete

SpecStatic == InitStatic /\ [][NextStatic]_vars

\* the operations of Next, with callers that pass the same output array to
\* consecutive FindWorkers calls
NextReuse ==
    \/ SetAvailability(TRUE)
    \/ SetAvailability(FALSE)
    \/ FindWorkers_Begin(PriorLists \cup ReusedList)
    \/ FindWorkers_End
    \/ UpdateWorkerList(ShortLists)
    \/ UpdateWorkerList_Return
    \/ Destructor
    \/ Tick
    \/ PeerAnnounce
    \/ ExternalDelete

SpecReuse == Init /\ [][NextReuse]_vars

\* the operations with the clock standing at 0, under fair scheduling: the wire
\* thread delivers the reply it has received and runs its callback to the end,
\* and the control thread's spin wait (Thread::Sleep(1) between two reads of
\* the flag) goes on once the flag is set
NextWait ==
    \/ SetAvailability(TRUE)
    \/ SetAvailability(FALSE)
    \/ FindWorkers_Begin(PriorLists)
    \/ FindWorkers_End
    \/ UpdateWorkerList(ShortLists)
    \/ UpdateWorkerList_Return
    \/ Destructor
    \/ PeerAnnounce
    \/ ExternalDelete

SpecWait ==
    /\ Init /\ [][NextWait]_vars
    /\ WF_vars(UpdateWorkerList(ShortLists))
    /\ WF_vars(UpdateWorkerList_Return)
    /\ WF_vars(FindWorkers_End)

\* --------------------------------------------------------------- vocabulary
Mode(w) ==
    IF w.m_CoordinatorAddress # EmptyStr THEN "Coordinator"
    ELSE IF w.m_BrokerageRoot # EmptyStr THEN "Filesystem"
    ELSE "None"

TypeOK ==
    /\ pc \in {"idle", "waiting", "destroyed"}
    /\ now \in 0..MaxTicks
    /\ wire \in BOOLEAN
    /\ callback.at \in {"none", "swapped", "flagged"}
    /\ wb.livePools \in 0..1

\* the configuration as the environment gives it
CoordinatorConfigured == env.explicit # EmptyStr \/ env.coordinator.value # EmptyStr
RootConfigured == env.brokeragePath.set
SentinelPath == FormatRoot(env.brokeragePath.value, PROTOCOL_VERSION) \o env.hostName

FindWorkersReturned == lastOp.op = "FindWorkers" /\ lastOp.done
SetAvailabilityReturned(b) == lastOp.op = "SetAvailability" /\ lastOp.arg = b

\* the entries the last FindWorkers call appended to the caller's list
AddedEntries == SubSeq(lastOp.workerList, Len(lastOp.prior) + 1, Len(lastOp.workerList))

IsSelf(name) == LowerStr(name) = LowerStr(env.hostName)

ConnectFailed == Len(lastOp.connects) = 1 /\ ~lastOp.connects[1].ok
ConnectSucceeded == Len(lastOp.connects) = 1 /\ lastOp.connects[1].ok

\* ------------------------------------------------------------------- claims

\* C1: no entry that a FindWorkers call adds to the worker list equals the
\* local host identity (ignoring case) or the string 127.0.0.1, on either
\* backend.
C1_SelfFilter ==
    FindWorkersReturned =>
        \A i \in 1..Len(AddedEntries) :
            ~IsSelf(AddedEntries[i]) /\ AddedEntries[i] # LOOPBACK

\* C2: when FindWorkers obtains a list from the coordinator, the entries it
\* returns are exactly the delivered addresses as dotted-quad strings, without
\* those equal to the host identity or to 127.0.0.1, once per occurrence and
\* in the order delivered.
DottedQuads(addrs) == [i \in 1..Len(addrs) |-> GetAddressAsString(addrs[i])]
C2_FilterCompleteOrdered ==
    (FindWorkersReturned /\ ConnectSucceeded) =>
        /\ lastOp.workerList = lastOp.prior \o AddedEntries
        /\ AddedEntries = SelectSeq(DottedQuads(lastOp.delivered),
                                    LAMBDA n : ~IsSelf(n) /\ n # LOOPBACK)

C2_Witness ==
    /\ FindWorkersReturned /\ ConnectSucceeded
    /\ env.hostName = HOST_ip
    /\ lastOp.delivered = <<ADDR_A, ADDR_SELF, ADDR_LOOP>>
    /\ AddedEntries = << <<"1","0",".","0",".","0",".","7">> >>

C2_WitnessOrder ==
    /\ FindWorkersReturned /\ ConnectSucceeded
    /\ lastOp.delivered = <<ADDR_A, ADDR_LOOP, ADDR_B>>
    /\ AddedEntries = << <<"1","0",".","0",".","0",".","7">>,
                         <<"1","0",".","0",".","0",".","3">> >>

\* C3: with a coordinator address configured and the connect failing,
\* FindWorkers adds nothing and does not enumerate the rendezvous directory,
\* also when FASTBUILD_BROKERAGE_PATH is set.
C3_NoFallThrough ==
    (FindWorkersReturned /\ CoordinatorConfigured /\ ConnectFailed) =>
        /\ lastOp.fsOps = <<>>
        /\ AddedEntries = <<>>
        /\ lastOp.workerList = lastOp.prior

C3_Witness ==
    /\ FindWorkersReturned /\ CoordinatorConfigured /\ ConnectFailed
    /\ env.brokeragePath = EnvSet(ENV_PATH)
    /\ GetFiles(files, FormatRoot(ENV_PATH, PROTOCOL_VERSION)) # {}

\* C4: after Init exactly one mode is active: Coordinator if the explicit or
\* the environment coordinator address is non-empty (the explicit one wins and
\* the brokerage root stays empty), else Filesystem if the path variable is
\* set, else None; the two are never both non-empty and no later operation
\* changes the selection.
ExpectedCoordinator ==
    IF env.explicit # EmptyStr THEN env.explicit ELSE env.coordinator.value
ExpectedRoot ==
    IF ~CoordinatorConfigured /\ RootConfigured
    THEN FormatRoot(env.brokeragePath.value, PROTOCOL_VERSION)
    ELSE EmptyStr
C4_Selected ==
    wb.m_Initialized =>
        /\ wb.m_CoordinatorAddress = ExpectedCoordinator
        /\ wb.m_BrokerageRoot = ExpectedRoot
        /\ ~(wb.m_CoordinatorAddress # EmptyStr /\ wb.m_BrokerageRoot # EmptyStr)
        /\ Mode(wb) = IF CoordinatorConfigured THEN "Coordinator"
                      ELSE IF RootConfigured THEN "Filesystem" ELSE "None"
C4_Stable ==
    wb.m_Initialized =>
        /\ wb'.m_Initialized
        /\ wb'.m_CoordinatorAddress = wb.m_CoordinatorAddress
        /\ wb'.m_BrokerageRoot = wb.m_BrokerageRoot
        /\ wb'.m_BrokerageFilePath = wb.m_BrokerageFilePath
C4_BackendSelection == [](C4_Selected) /\ [][C4_Stable]_vars

C4_Witness ==
    /\ wb.m_Initialized
    /\ env.explicit = EXPLICIT_ADDR
    /\ env.coordinator = EnvSet(COORD_ADDR)
    /\ env.brokeragePath = EnvSet(ENV_PATH)
    /\ wb.m_CoordinatorAddress = EXPLICIT_ADDR
    /\ wb.m_BrokerageRoot = EmptyStr
    /\ lastOp.op = "SetAvailability" /\ lastOp.prevAvail

C4_WitnessFilesystem ==
    /\ wb.m_Initialized
    /\ env.coordinator = EnvSet(EmptyStr)
    /\ env.brokeragePath = EnvSet(EmptyStr)
    /\ Mode(wb) = "Filesystem"
    /\ FindWorkersReturned

\* C5: with neither a coordinator address nor a brokerage root configured,
\* FindWorkers adds no entry, opens no connection and lists no directory, and
\* SetAvailability(true) creates or deletes no file and opens no connection.
NothingDone ==
    /\ lastOp.connects = <<>>
    /\ lastOp.msgs = <<>>
    /\ lastOp.fsOps = <<>>
    /\ ~wb.m_ConnectionPool /\ ~wb.m_Connection
C5_UnconfiguredNoOp ==
    (~CoordinatorConfigured /\ ~RootConfigured) =>
        /\ FindWorkersReturned => (NothingDone /\ AddedEntries = <<>>)
        /\ lastOp.op = "FindWorkers" => lastOp.done
        /\ SetAvailabilityReturned(TRUE) => NothingDone
        /\ files = {}

C5_Witness ==
    /\ ~CoordinatorConfigured /\ ~RootConfigured
    /\ SetAvailabilityReturned(TRUE)
    /\ GetElapsedMS(wb.m_TimerLastUpdate) >= ThrottleMS

C5_WitnessFind ==
    /\ ~CoordinatorConfigured /\ ~RootConfigured
    /\ FindWorkersReturned
    /\ lastOp.prior # <<>>

\* C6, as claimed: after every return of SetAvailability(b) AvailabilityState
\* equals b, whatever the backend mode.
C6_AlwaysUpdated ==
    lastOp.op = "SetAvailability" => wb.m_Availability = lastOp.arg

\* C6, amended: after every return of SetAvailability(b) with a coordinator or
\* a brokerage root configured, AvailabilityState equals b, throttled or not
\* and whether or not the connect or the file operation succeeded; with
\* neither configured the call returns early and AvailabilityState stays false.
C6_UpdatedWhenConfigured ==
    lastOp.op = "SetAvailability" =>
        IF CoordinatorConfigured \/ RootConfigured
        THEN wb.m_Availability = lastOp.arg
        ELSE wb.m_Availability = FALSE /\ lastOp.prevAvail = FALSE

C6_Witness ==
    /\ SetAvailabilityReturned(TRUE)
    /\ ~CoordinatorConfigured /\ RootConfigured
    /\ ~lastOp.prevAvail
    /\ lastOp.fsOps = <<>>
    /\ wb.m_Availability

\* C7: a SetAvailability(true) call made while AvailabilityState is false
\* announces on that call whatever the throttle timer shows: it creates the
\* sentinel file (or finds it present) in filesystem mode and connects to send
\* SetWorkerStatus(true) in coordinator mode.
C7_FirstAnnounceUnthrottled ==
    (SetAvailabilityReturned(TRUE) /\ ~lastOp.prevAvail) =>
        /\ (~CoordinatorConfigured /\ RootConfigured) =>
               \/ \E i \in 1..Len(lastOp.fsOps) : lastOp.fsOps[i].op = "Open"
               \/ \E i \in 1..Len(lastOp.fsOps) :
                      lastOp.fsOps[i].op = "FileExists" /\ SentinelPath \in files
        /\ CoordinatorConfigured =>
               /\ lastOp.connects # <<>>
               /\ ConnectSucceeded => lastOp.msgs = <<MsgSetWorkerStatus(TRUE)>>

\* C8: any two sentinel creations performed by SetAvailability(true) are at
\* least 10,000 ms of monotonic time apart.
C8_CreationsThrottled ==
    hist.prevCreate # -1 =>
        (hist.lastCreate - hist.prevCreate) * TickMS >= ThrottleMS

C8_Witness ==
    /\ hist.prevCreate # -1
    /\ hist.lastCreate > hist.prevCreate
    /\ ~CoordinatorConfigured /\ RootConfigured
    /\ SentinelPath \in files

\* C9: in coordinator mode any two SetWorkerStatus(true) messages sent by
\* SetAvailability(true) while already available are at least 10,000 ms apart.
C9_ResendsThrottled ==
    hist.prevSend # -1 =>
        (hist.lastSend - hist.prevSend) * TickMS >= ThrottleMS

C11_SentinelWhileAvailable ==
    ( /\ pc # "destroyed"
      /\ ~CoordinatorConfigured /\ RootConfigured
      /\ ~hist.disturbed
      /\ wb.m_Availability )
    => SentinelPath \in files

\* C12: SetAvailability(false) acts only on a change from true to false. If
\* AvailabilityState was true it sends SetWorkerStatus(false) to the
\* coordinator or, without a connection, deletes the sentinel file, and it
\* restarts the throttle timer; if AvailabilityState was already false it
\* sends nothing, deletes nothing and leaves the timer as it was.
C12_AlreadyFalse ==
    (SetAvailabilityReturned(FALSE) /\ ~lastOp.prevAvail) =>
        /\ NothingDone
        /\ wb.m_TimerLastUpdate = lastOp.prevTimer
C12_TrueToFalse ==
    (wb.m_Availability /\ ~wb'.m_Availability) =>
        /\ lastOp'.op = "SetAvailability" /\ ~lastOp'.arg /\ lastOp'.prevAvail
        /\ wb'.m_TimerLastUpdate = now
        /\ IF ConnectSucceeded'
           THEN /\ lastOp'.msgs = << MsgSetWorkerStatus(FALSE) >>
                /\ lastOp'.fsOps = <<>>
                /\ files' = files
           ELSE /\ lastOp'.msgs = <<>>
                /\ Len(lastOp'.fsOps) = 1
                /\ lastOp'.fsOps[1].op = "FileDelete"
                /\ lastOp'.fsOps[1].path = wb.m_BrokerageFilePath
                /\ lastOp'.fsOps[1].ok => wb.m_BrokerageFilePath \notin files'
C13_ConnectionScoped ==
    /\ wb.livePools <= 1
    /\ pc # "waiting" =>
          /\ ~wb.m_ConnectionPool
          /\ ~wb.m_Connection
          /\ wb.livePools = 0

C13_Witness ==
    /\ FindWorkersReturned /\ ConnectSucceeded
    /\ AddedEntries # <<>>
    /\ ~wb.m_ConnectionPool /\ ~wb.m_Connection /\ wb.livePools = 0

\* C14: after a successful connect and the send of RequestWorkerList,
\* FindWorkers holds the connection and returns only once the wire layer has
\* invoked UpdateWorkerList: while no reply has been delivered the call stays
\* in its wait with the connection unreleased (for ever, if the coordinator
\* never replies), and when the wire thread is fair and delivers the reply the
\* call eventually tears the connection down and returns.
C14_HeldWhileWaiting ==
    pc = "waiting" => wb.m_ConnectionPool /\ wb.m_Connection /\ ~lastOp.done
C14_ReturnsOnlyAfterCallback ==
    /\ (pc = "waiting" /\ ~wb.m_WorkerListUpdateReady) =>
           (pc' = "waiting" /\ wb'.m_ConnectionPool)
    /\ (pc = "waiting" /\ ~wb.m_WorkerListUpdateReady /\ wb'.m_WorkerListUpdateReady) =>
           (callback' # callback /\ ~wire')
    /\ (pc = "waiting" /\ pc' # "waiting") =>
           (FindWorkersReturned' /\ ~wb'.m_ConnectionPool /\ ~wb'.m_Connection)
C14_ResponseWait ==
    /\ [](C14_HeldWhileWaiting)
    /\ [][C14_ReturnsOnlyAfterCallback]_vars
    /\ (pc = "waiting") ~> (pc = "idle" /\ FindWorkersReturned /\ ~wb.m_ConnectionPool)

C14_Witness ==
    /\ FindWorkersReturned /\ ConnectSucceeded
    /\ lastOp.msgs = << MsgRequestWorkerList >>
    /\ wb.m_WorkerListUpdateReady /\ ~wire /\ callback = NoCallback
    /\ pc = "idle" /\ ~wb.m_ConnectionPool

\* C15: in every interleaving of UpdateWorkerList (wire thread) with
\* FindWorkers (control thread) the address list is transferred before the
\* ready flag becomes observable: whenever the control thread can leave its
\* wait the pending list is the complete list delivered for the current
\* request, and the list FindWorkers converts and returns is exactly that one
\* delivered list.
C15_ListBeforeFlag ==
    /\ (pc = "waiting" /\ wb.m_WorkerListUpdateReady) =>
           wb.m_WorkerListUpdate = lastOp.delivered
    /\ (FindWorkersReturned /\ ConnectSucceeded) =>
           AddedEntries = ConvertWorkerAddresses(<<>>, lastOp.delivered, env.hostName)

\* C16: the ready flag is true exactly when UpdateWorkerList has delivered a
\* list since the last FindWorkers call reset the flag: only the reset of a
\* FindWorkers call that sends a request clears it, and only the callback sets
\* it. The delivered list is consumed by that call and the pending list is
\* empty when the call has returned, so every address a call returns was
\* delivered for that call and none for an earlier one.
C16_PendingEmptyAtReturn ==
    pc # "waiting" => (wb.m_WorkerListUpdate = <<>> /\ callback = NoCallback)
C16_ReturnedFromThisCall ==
    (FindWorkersReturned /\ ConnectSucceeded) =>
        \A i \in DOMAIN AddedEntries :
            \E j \in DOMAIN lastOp.delivered :
                AddedEntries[i] = GetAddressAsString(lastOp.delivered[j])
C16_FlagSteps ==
    /\ (wb'.m_WorkerListUpdateReady # wb.m_WorkerListUpdateReady) =>
           IF wb'.m_WorkerListUpdateReady
           THEN pc = "waiting" /\ callback' # callback
           ELSE pc = "idle" /\ pc' = "waiting"
    /\ (pc = "idle" /\ pc' = "waiting") => (~wb'.m_WorkerListUpdateReady /\ wire')
    /\ (callback.at # "none" /\ callback'.at = "none") => wb'.m_WorkerListUpdateReady
C16_ReadyFlagLifecycle ==
    /\ [](C16_PendingEmptyAtReturn /\ C16_ReturnedFromThisCall)
    /\ [][C16_FlagSteps]_vars

C16_Witness ==
    /\ FindWorkersReturned /\ ConnectSucceeded
    /\ lastOp.delivered # <<>> /\ AddedEntries # <<>>
    /\ wb.m_WorkerListUpdateReady
    /\ wb.m_WorkerListUpdate = <<>>

\* a step that is a call SetAvailability(b) (a call that changes nothing at
\* all is a stuttering step)
SetAvailabilityStep(b) ==
    /\ lastOp'.op = "SetAvailability" /\ lastOp'.arg = b
    /\ (lastOp' # lastOp \/ wb' # wb)

HasFsOp(fsOps, op, path) ==
    \E i \in DOMAIN fsOps : fsOps[i].op = op /\ fsOps[i].path = path

\* C17: filesystem backend, SetAvailability(true) with AvailabilityState
\* already true. With at least 10,000 ms on the throttle timer: a missing
\* sentinel is recreated (unless the creation itself fails) and the timer
\* restarts; with the sentinel present nothing is written and the timer is not
\* restarted. With less than 10,000 ms the call changes neither file nor
\* timer. So a sentinel removed externally is recreated by the first
\* SetAvailability(true) made once the timer has reached 10,000 ms.
C17_Reannounce ==
    ( /\ SetAvailabilityStep(TRUE)
      /\ wb.m_Availability
      /\ Mode(wb) = "Filesystem" ) =>
        IF GetElapsedMS(wb.m_TimerLastUpdate) >= ThrottleMS
        THEN IF wb.m_BrokerageFilePath \notin files
             THEN /\ HasFsOp(lastOp'.fsOps, "Open", wb.m_BrokerageFilePath)
                  /\ Created(lastOp'.fsOps) => wb.m_BrokerageFilePath \in files'
                  /\ wb'.m_TimerLastUpdate = now
             ELSE /\ ~HasFsOp(lastOp'.fsOps, "Open", wb.m_BrokerageFilePath)
                  /\ files' = files
                  /\ wb'.m_TimerLastUpdate = wb.m_TimerLastUpdate
        ELSE /\ lastOp'.fsOps = <<>>
             /\ files' = files
             /\ wb'.m_TimerLastUpdate = wb.m_TimerLastUpdate
C18_CoordinatorOnly ==
    (CoordinatorConfigured /\ lastOp.op \in {"SetAvailability", "Destructor"}) =>
        /\ lastOp.fsOps = <<>>
        /\ (lastOp.op = "SetAvailability" /\ ConnectFailed) =>
               wb.m_TimerLastUpdate = lastOp.prevTimer

\* the call recorded in op did not take effect: its connect failed, or its
\* sentinel creation or deletion failed
CallFailed(op) ==
    \/ (Len(op.connects) = 1 /\ ~op.connects[1].ok)
    \/ FileOpFailed(op.fsOps)

\* the call recorded in again makes the attempt of the call recorded in op
AttemptedAgain(op, again) ==
    IF op.connects # <<>>
    THEN again.connects # <<>>
    ELSE \A i \in DOMAIN op.fsOps :
            (op.fsOps[i].op \in {"Open", "FileDelete"} /\ ~op.fsOps[i].ok) =>
                HasFsOp(again.fsOps, op.fsOps[i].op, op.fsOps[i].path)

\* C19: when SetAvailability(b) did not take effect (connect failed, or the
\* sentinel creation or deletion failed), a later SetAvailability(b) with the
\* same argument, made once 10,000 ms have passed on the throttle timer,
\* attempts the same send, creation or deletion again; for b = true and for
\* b = false.
C19_Retry ==
    \A b \in BOOLEAN :
        ( /\ lastOp.op = "SetAvailability" /\ lastOp.arg = b
          /\ CallFailed(lastOp)
          /\ GetElapsedMS(wb.m_TimerLastUpdate) >= ThrottleMS
          /\ SetAvailabilityStep(b) )
        => AttemptedAgain(lastOp, lastOp')
C19_FailuresRetried == [][C19_Retry]_vars

\* a step of a FindWorkers call, or of the callback that serves it
FindWorkersStep ==
    /\ lastOp'.op = "FindWorkers"
    /\ (lastOp' # lastOp \/ wb' # wb)

\* FindWorkers leaves AvailabilityState and the sentinel file alone and, on a
\* brokerage that is initialised, the throttle timer and the backend
\* configuration
C20_Frame ==
    FindWorkersStep =>
        /\ wb'.m_Availability = wb.m_Availability
        /\ files' = files
        /\ env' = env
        /\ wb.m_Initialized =>
              /\ wb'.m_TimerLastUpdate = wb.m_TimerLastUpdate
              /\ wb'.m_BrokerageRoot = wb.m_BrokerageRoot
              /\ wb'.m_BrokerageFilePath = wb.m_BrokerageFilePath
              /\ wb'.m_CoordinatorAddress = wb.m_CoordinatorAddress
              /\ wb'.m_HostName = wb.m_HostName

\* a FindWorkers call that returns in one step right after a FindWorkers call
\* that has returned, against the same backend contents
SecondCallSameContents ==
    /\ FindWorkersReturned /\ FindWorkersReturned'
    /\ pc = "idle" /\ pc' = "idle"
    /\ lastOp'.connects = lastOp.connects
    /\ lastOp'.delivered = lastOp.delivered

\* C20 as stated: FindWorkers leaves AvailabilityState, the throttle timer,
\* the sentinel file and the backend configuration unchanged, and two
\* consecutive FindWorkers calls against the same backend contents leave the
\* caller with the same worker list as one call, also when the caller passes
\* the same output list to both calls.
C20_SameListAsOneCall ==
    ( /\ SecondCallSameContents
      /\ lastOp'.prior \in {lastOp.prior, lastOp.workerList} )
    => lastOp'.workerList = lastOp.workerList
C20_AppendsOnly ==
    FindWorkersReturned =>
        /\ lastOp.workerList = lastOp.prior \o AddedEntries
        /\ AddedEntries =
              IF ConnectSucceeded
              THEN ConvertWorkerAddresses(<<>>, lastOp.delivered, env.hostName)
              ELSE ConvertWorkerFiles(<<>>, lastOp.delivered, env.hostName)
C20_SameEntriesAppended ==
    SecondCallSameContents =>
        /\ AddedEntries' = AddedEntries
        /\ lastOp'.prior = lastOp.prior => lastOp'.workerList = lastOp.workerList
        /\ lastOp'.prior = lastOp.workerList =>
              lastOp'.workerList = lastOp.workerList \o AddedEntries
====
